---------------------------- MODULE Spec2Model ----------------------------
(***************************************************************************)
(* Heuristic AI-text detectors of server/services.                         *)
(*                                                                         *)
(* A text is a TLA+ string, processed character by character exactly as    *)
(* the Python string and regular-expression calls of the source process    *)
(* it.  Python floats are modelled as exact rationals [n, d] in lowest     *)
(* terms with d > 0.                                                       *)
(***************************************************************************)
EXTENDS Integers, Sequences, FiniteSets, TLC

VARIABLES text, ntyped, pc, entry, result, calls, stdout, exit_status, prev,
          remembered, ncalls, env, threads, globals

\* text         the input: stdin of a main, the argument of a library call
\* ntyped       the number of phrases typed into the input so far
\* pc           "input", "returned" (a library call returned), "edited" (the
\*              caller changed the text after a call), "exited" (a main ended)
\* entry        the function or main that ran last
\* result       the record the last call of detect_ai_text_desklib returned
\* calls        the functions the last invocation called, in order
\* stdout       the records a main printed
\* exit_status  the status a main exited with, <<>> while none has
\* prev         the text and probability of the call before the caller's edit
\* remembered   an earlier call (text, result) kept for comparison
\* ncalls       the number of library calls made so far
\* env          what the process finds around it: whether the ML libraries
\*              import, what the model does when it is loaded and run, and
\*              what raises inside the try block of a main
\* threads      the threads that run detect_ai_text_desklib concurrently, each
\*              with its position, its argument and the frame of its locals
\* globals      the module-level variables of ai-detector-daemon.py and of
\*              ai-detector-optimized.py, with the calls made on them so far
vars == <<text, ntyped, pc, entry, result, calls, stdout, exit_status, prev,
          remembered, ncalls, env, threads, globals>>

(***************************************************************************)
(* Bounds of the model.                                                    *)
(***************************************************************************)
MaxTokens == 2

MaxCalls == 3

NumThreads == 2

(***************************************************************************)
(* Exact rational arithmetic standing for the float arithmetic.            *)
(***************************************************************************)
RECURSIVE GCD(_, _)
GCD(a, b) == IF b = 0 THEN a ELSE GCD(b, a % b)

Abs(x) == IF x < 0 THEN -x ELSE x

R(n, d) ==
    LET g == GCD(Abs(n), Abs(d))
        s == IF d < 0 THEN -1 ELSE 1
    IN  [n |-> s * (n \div g), d |-> s * (d \div g)]

LCM(a, b) == (a \div GCD(a, b)) * b

RAdd(x, y) ==
    LET l == LCM(x.d, y.d)
    IN  R(x.n * (l \div x.d) + y.n * (l \div y.d), l)

RNeg(x) == [n |-> -x.n, d |-> x.d]

RSub(x, y) == RAdd(x, RNeg(y))

RMul(x, y) ==
    LET g1 == GCD(Abs(x.n), y.d)
        g2 == GCD(Abs(y.n), x.d)
    IN  R((x.n \div g1) * (y.n \div g2), (x.d \div g2) * (y.d \div g1))

RLe(x, y) ==
    LET l == LCM(x.d, y.d)
    IN  x.n * (l \div x.d) <= y.n * (l \div y.d)

RLt(x, y) == ~RLe(y, x)

RMin(x, y) == IF RLe(x, y) THEN x ELSE y

RMax(x, y) == IF RLe(x, y) THEN y ELSE x

RAbs(x) == [n |-> Abs(x.n), d |-> x.d]

Int2R(k) == [n |-> k, d |-> 1]

(***************************************************************************)
(* Python string operations.  They are written over index sets rather than *)
(* by recursion on the characters, so that their evaluation depth does not *)
(* grow with the length of the text.                                       *)
(***************************************************************************)
Char(s, i) == SubSeq(s, i, i)

Whitespace == {" ", "\t", "\n"}

IsWs(s, i) == Char(s, i) \in Whitespace

MinOf(S) == CHOOSE x \in S : \A y \in S : x <= y

MaxOf(S) == CHOOSE x \in S : \A y \in S : y <= x

\* The elements of S within lo..hi, in increasing order (by halves).
RECURSIVE Ascending(_, _, _)
Ascending(S, lo, hi) ==
    IF lo > hi THEN <<>>
    ELSE IF lo = hi THEN (IF lo \in S THEN <<lo>> ELSE <<>>)
    ELSE Ascending(S, lo, (lo + hi) \div 2) \o Ascending(S, (lo + hi) \div 2 + 1, hi)

\* str.strip()
py_strip(s) ==
    LET keep == {i \in 1..Len(s) : ~IsWs(s, i)}
    IN  IF keep = {} THEN "" ELSE SubSeq(s, MinOf(keep), MaxOf(keep))

\* str.split(): the maximal runs of non-whitespace characters, in order.
py_split(s) ==
    LET starts == {i \in 1..Len(s) : ~IsWs(s, i) /\ (i = 1 \/ IsWs(s, i - 1))}
        last(i) == MinOf({j \in i..Len(s) : j = Len(s) \/ IsWs(s, j + 1)})
        order == Ascending(starts, 1, Len(s))
    IN  [k \in 1..Len(order) |-> SubSeq(s, order[k], last(order[k]))]

\* str.split(sep) for a one-character separator: every piece, empty ones too.
py_split_sep(s, sep) ==
    LET starts == {1} \cup {i + 1 : i \in {j \in 1..Len(s) : Char(s, j) = sep}}
        last(a) == MinOf({j \in (a - 1)..Len(s) : j = Len(s) \/ Char(s, j + 1) = sep})
        order == Ascending(starts, 1, Len(s) + 1)
    IN  [k \in 1..Len(order) |-> SubSeq(s, order[k], last(order[k]))]

\* re.split(r'[.!?]+', s): the pieces between maximal runs of terminators.
Terminators == {".", "!", "?"}

IsTerm(s, i) == Char(s, i) \in Terminators

re_split_terminators(s) ==
    LET runEnds == {j \in 1..Len(s) :
                       IsTerm(s, j) /\ (j = Len(s) \/ ~IsTerm(s, j + 1))}
        starts == {1} \cup {j + 1 : j \in runEnds}
        last(a) == MinOf({j \in (a - 1)..Len(s) : j = Len(s) \/ IsTerm(s, j + 1)})
        order == Ascending(starts, 1, Len(s) + 1)
    IN  [k \in 1..Len(order) |-> SubSeq(s, order[k], last(order[k]))]

\* `p in s`
py_in(p, s) ==
    \E i \in 1..(Len(s) - Len(p) + 1) : SubSeq(s, i, i + Len(p) - 1) = p

\* s.count(p): non-overlapping occurrences, scanning left to right.
RECURSIVE CountFrom(_, _, _)
CountFrom(s, p, i) ==
    LET occ == {j \in i..(Len(s) - Len(p) + 1) : SubSeq(s, j, j + Len(p) - 1) = p}
    IN  IF occ = {} THEN 0 ELSE 1 + CountFrom(s, p, MinOf(occ) + Len(p))

py_count(s, p) ==
    IF Len(p) = 1
    THEN Cardinality({j \in 1..Len(s) : Char(s, j) = p})
    ELSE CountFrom(s, p, 1)

UpperLetters == "ABCDEFGHIJKLMNOPQRSTUVWXYZ"

LowerLetters == "abcdefghijklmnopqrstuvwxyz"

LowerChar(c) ==
    IF \E k \in 1..26 : Char(UpperLetters, k) = c
    THEN Char(LowerLetters, CHOOSE k \in 1..26 : Char(UpperLetters, k) = c)
    ELSE c

\* str.lower(), by halves.
RECURSIVE py_lower(_)
py_lower(s) ==
    IF Len(s) = 0 THEN ""
    ELSE IF Len(s) = 1 THEN LowerChar(s)
    ELSE py_lower(SubSeq(s, 1, Len(s) \div 2))
         \o py_lower(SubSeq(s, Len(s) \div 2 + 1, Len(s)))

\* sum(1 for p in patterns if p in s)
CountPresent(patterns, s) ==
    Cardinality({k \in 1..Len(patterns) : py_in(patterns[k], s)})

\* [x for x in pieces if x.strip()]
NonBlank(pieces) == SelectSeq(pieces, LAMBDA x : py_strip(x) # "")

Max(a, b) == IF a >= b THEN a ELSE b


(***************************************************************************)
(* ai-detector-adapted.py                                                  *)
(***************************************************************************)
formal_academic_words ==
    << "comprehensive", "analysis", "demonstrates", "significant", "extensive",
       "furthermore", "therefore", "consequently", "moreover", "substantial",
       "methodology", "empirical", "theoretical", "framework", "paradigm",
       "implications", "considerations", "perspective", "approach",
       "investigation", "establish", "implementation", "requirements",
       "optimization", "functionality", "configuration", "authentication",
       "authorization", "integration", "specification" >>

transition_patterns ==
    << "however", "therefore", "furthermore", "moreover", "consequently",
       "additionally", "nevertheless", "subsequently", "alternatively" >>

desklib_casual_markers ==
    << "i'm", "you're", "it's", "that's", "here's", "what's", "there's",
       "really", "pretty", "quite", "kind of", "sort of", "like", "actually",
       "honestly", "basically", "totally", "definitely", "probably", "maybe",
       "yeah", "yep", "nope", "okay", "ok", "hey", "hi", "hello" >>

preprocess_text_desklib_style(t) ==
    LET stripped == py_strip(t)
        ws == py_split(stripped)
        Join[k \in 0..Len(ws)] ==
            IF k = 0 THEN ""
            ELSE IF k = 1 THEN ws[1]
            ELSE Join[k - 1] \o " " \o ws[k]
    IN  Join[Len(ws)]

extract_desklib_features(t) ==
    LET words == py_split(t)
        sentences == NonBlank(re_split_terminators(t))
        word_count == Len(words)
        sentence_count == Max(Len(sentences), 1)
        text_lower == py_lower(t)
        formal_count == CountPresent(formal_academic_words, text_lower)
        transition_count == CountPresent(transition_patterns, text_lower)
        casual_count == CountPresent(desklib_casual_markers, text_lower)
    IN  IF words = <<>>
        THEN [is_empty |-> TRUE]
        ELSE [ formal_density |-> R(formal_count, word_count),
               transition_density |-> R(transition_count, sentence_count),
               avg_sentence_length |-> R(word_count, sentence_count),
               casual_density |-> R(casual_count, word_count),
               question_count |-> py_count(t, "?"),
               exclamation_count |-> py_count(t, "!"),
               complex_indicators |->
                   py_count(text_lower, " which ") + py_count(text_lower, " that ")
                   + py_count(text_lower, " where "),
               colon_usage |->
                   RMul(Int2R(py_count(t, ":")),
                        IF word_count > 10 THEN R(10, word_count) ELSE Int2R(1)),
               word_count |-> word_count,
               sentence_count |-> sentence_count,
               is_empty |-> FALSE ]

One == Int2R(1)

Zero == Int2R(0)

\* formal_term active from the threshold on, not above it
formal_term_inclusive(f) ==
    IF RLe(R(1, 10), f.formal_density)
    THEN RMul(R(3, 5), RMin(RMul(f.formal_density, Int2R(5)), One))
    ELSE Zero

\* lines 118-119
formal_term(f) ==
    IF RLt(R(1, 10), f.formal_density)
    THEN RMul(R(3, 5), RMin(RMul(f.formal_density, Int2R(5)), One))
    ELSE Zero

\* lines 122-123
transition_term(f) ==
    IF RLt(R(1, 5), f.transition_density)
    THEN RMul(R(2, 5), RMin(RMul(f.transition_density, Int2R(2)), One))
    ELSE Zero

\* lines 126-128
sentence_length_term(f) ==
    IF RLt(Int2R(15), f.avg_sentence_length)
    THEN RMul(R(3, 10),
              RMin(RMul(RSub(f.avg_sentence_length, Int2R(15)), R(1, 20)), One))
    ELSE Zero

\* lines 133-134
casual_term(f) ==
    IF RLt(R(1, 20), f.casual_density)
    THEN RMul(R(2, 5), RMin(RMul(f.casual_density, Int2R(10)), One))
    ELSE Zero

\* line 137
emotional_indicators(f) ==
    R(f.question_count + f.exclamation_count, Max(f.sentence_count, 1))

\* lines 138-139
emotional_term(f) ==
    IF RLt(R(1, 10), emotional_indicators(f))
    THEN RMul(R(3, 10), RMin(RMul(emotional_indicators(f), Int2R(3)), One))
    ELSE Zero

\* lines 144-149
length_adjustment(f, score) ==
    IF f.word_count < 20 THEN RMul(score, R(7, 10))
    ELSE IF f.word_count > 100 THEN RMul(score, R(11, 10))
    ELSE score

\* lines 152-153
complex_term(f) ==
    IF f.complex_indicators > 2
    THEN RMul(R(1, 10), RMin(R(f.complex_indicators, 5), One))
    ELSE Zero

\* clamp_probability without the bounds of line 156
clamp_probability_unbounded(p) == p

\* line 156
clamp_probability(p) == RMax(R(1, 100), RMin(R(99, 100), p))

\* desklib_confidence without the floor of line 167
desklib_confidence_unfloored(f) ==
    LET factors ==
            << RMul(f.formal_density, Int2R(2)),
               RMul(RAbs(RSub(f.casual_density, R(1, 20))), Int2R(5)),
               RMin(RMul(RAbs(RSub(f.avg_sentence_length, Int2R(15))), R(1, 10)), One),
               RMul(R(f.question_count + f.exclamation_count, Max(f.sentence_count, 1)),
                    Int2R(2)) >>
        total == RAdd(RAdd(factors[1], factors[2]), RAdd(factors[3], factors[4]))
    IN  RMin(RMul(total, R(1, 4)), R(49, 50))

\* lines 159-167
desklib_confidence(f) ==
    LET factors ==
            << RMul(f.formal_density, Int2R(2)),
               RMul(RAbs(RSub(f.casual_density, R(1, 20))), Int2R(5)),
               RMin(RMul(RAbs(RSub(f.avg_sentence_length, Int2R(15))), R(1, 10)), One),
               RMul(emotional_indicators(f), Int2R(2)) >>
        total == RAdd(RAdd(factors[1], factors[2]), RAdd(factors[3], factors[4]))
    IN  RMax(RMin(RMul(total, R(1, 4)), R(49, 50)), R(3, 10))

\* desklib_score with the human indicators added instead of subtracted
desklib_score_added(f) ==
    LET plus == RAdd(RAdd(formal_term(f), transition_term(f)), sentence_length_term(f))
        minus == RAdd(casual_term(f), emotional_term(f))
    IN  RAdd(length_adjustment(f, RAdd(plus, minus)), complex_term(f))

\* lines 115-139: ai_probability as it stands before line 144
desklib_accumulated(f) ==
    LET plus == RAdd(RAdd(formal_term(f), transition_term(f)), sentence_length_term(f))
        minus == RAdd(casual_term(f), emotional_term(f))
    IN  RSub(plus, minus)

desklib_score(f) ==
    RAdd(length_adjustment(f, desklib_accumulated(f)), complex_term(f))

calculate_desklib_probability(f) ==
    IF f.is_empty
    THEN <<R(1, 2), R(1, 10)>>
    ELSE <<clamp_probability(desklib_score(f)), desklib_confidence(f)>>

\* extract_desklib_divisors without the return of lines 31-32
extract_desklib_divisors_unguarded(t) ==
    LET word_count == Len(py_split(t))
        sentence_count == Max(Len(NonBlank(re_split_terminators(t))), 1)
    IN  << Int2R(word_count), Int2R(sentence_count), Int2R(word_count),
           Int2R(sentence_count), RMax(R(word_count, 10), One),
           Int2R(word_count) >>

\* The right operands of the divisions extract_desklib_features(t) evaluates,
\* in order: lines 37, 38, 55, 63, 66 and 78; none after the return of
\* lines 31-32.
extract_desklib_divisors(t) ==
    LET word_count == Len(py_split(t))
        sentence_count == Max(Len(NonBlank(re_split_terminators(t))), 1)
    IN  IF py_split(t) = <<>>
        THEN <<>>
        ELSE << Int2R(word_count), Int2R(sentence_count), Int2R(word_count),
                Int2R(sentence_count), RMax(R(word_count, 10), One),
                Int2R(word_count) >>

\* The right operands of the divisions calculate_desklib_probability(f)
\* evaluates: lines 127, 137, 153, 162 and 166; none after the return of
\* lines 107-108.
calculate_desklib_divisors(f) ==
    IF f.is_empty
    THEN <<>>
    ELSE (IF RLt(Int2R(15), f.avg_sentence_length) THEN <<Int2R(20)>> ELSE <<>>)
         \o <<Int2R(Max(f.sentence_count, 1))>>
         \o (IF f.complex_indicators > 2 THEN <<Int2R(5)>> ELSE <<>>)
         \o <<Int2R(10), Int2R(4)>>

\* extract_desklib_features(t) and calculate_desklib_probability on its
\* result, with the intermediate values of the calculation
desklib_applied(t) ==
    LET f == extract_desklib_features(t)
    IN  IF f.is_empty
        THEN [ features |-> f,
               value |-> calculate_desklib_probability(f),
               divisors |-> extract_desklib_divisors(t)
                            \o calculate_desklib_divisors(f) ]
        ELSE [ features |-> f,
               terms |-> [ formal |-> formal_term(f),
                           transition |-> transition_term(f),
                           sentence_length |-> sentence_length_term(f),
                           complex |-> complex_term(f),
                           casual |-> casual_term(f),
                           emotional |-> emotional_term(f) ],
               emotional_indicators |-> emotional_indicators(f),
               accumulated |-> desklib_accumulated(f),
               adjusted |-> length_adjustment(f, desklib_accumulated(f)),
               score |-> desklib_score(f),
               value |-> calculate_desklib_probability(f),
               divisors |-> extract_desklib_divisors(t)
                            \o calculate_desklib_divisors(f) ]

\* is_near_empty measuring the text as given, not stripped
is_near_empty_unstripped(t) == t = "" \/ Len(t) < 3

\* line 177: not text or len(text.strip()) < 3
is_near_empty(t) == t = "" \/ Len(py_strip(t)) < 3

\* desklib_label with a strict threshold
desklib_label_strict(probability) ==
    IF RLt(R(1, 2), probability) THEN "AI Generated" ELSE "Human Written"

\* line 191
desklib_label(probability) ==
    IF RLe(R(1, 2), probability) THEN "AI Generated" ELSE "Human Written"

\* detect_ai_text_desklib answering from the result of the previous scored call
detect_ai_text_desklib_stale(t) ==
    IF ncalls > 0 /\ calls # <<>>
    THEN result
    ELSE IF t = "" \/ Len(py_strip(t)) < 3
    THEN [probability |-> R(1, 2), label |-> "Human Written", confidence |-> R(1, 10)]
    ELSE LET pc2 == calculate_desklib_probability(extract_desklib_features(t))
         IN  [probability |-> pc2[1],
              label |-> IF RLe(R(1, 2), pc2[1]) THEN "AI Generated" ELSE "Human Written",
              confidence |-> pc2[2]]

detect_ai_text_desklib(t) ==
    IF is_near_empty(t)
    THEN [probability |-> R(1, 2), label |-> "Human Written", confidence |-> R(1, 10)]
    ELSE LET pc2 == calculate_desklib_probability(extract_desklib_features(t))
         IN  [probability |-> pc2[1],
              label |-> desklib_label(pc2[1]),
              confidence |-> pc2[2]]

\* The functions detect_ai_text_desklib(t) calls, in call order.
detect_ai_text_desklib_calls(t) ==
    IF is_near_empty(t)
    THEN <<>>
    ELSE <<"extract_desklib_features", "calculate_desklib_probability">>

(***************************************************************************)
(* ai-detector-simple.py                                                   *)
(***************************************************************************)
ai_indicators ==
    << "comprehensive", "furthermore", "moreover", "consequently",
       "extensive", "significant", "demonstrates", "analysis",
       "implementation", "methodology", "framework", "optimization" >>

\* sum(len(s.split()) for s in sentences)
RECURSIVE SumWordCounts(_, _)
SumWordCounts(pieces, k) ==
    IF k = 0 THEN 0 ELSE Len(py_split(pieces[k])) + SumWordCounts(pieces, k - 1)

\* lines 16-47
simple_probability(input_text) ==
    LET word_count == Len(py_split(input_text))
        formal_indicators == CountPresent(ai_indicators, py_lower(input_text))
        sentences == py_split_sep(input_text, ".")
        avg_sentence_length ==
            R(SumWordCounts(sentences, Len(sentences)), Max(Len(sentences), 1))
        formal == IF formal_indicators > 0
                  THEN RMin(R(2, 5), R(formal_indicators, 10))
                  ELSE Zero
        verbose1 == IF word_count > 50 THEN R(3, 20) ELSE Zero
        verbose2 == IF word_count > 100 THEN R(1, 10) ELSE Zero
        structure == IF RLt(Int2R(15), avg_sentence_length) THEN R(1, 10) ELSE Zero
        base_probability ==
            RAdd(RAdd(RAdd(RAdd(R(3, 10), formal), verbose1), verbose2), structure)
    IN  RMin(R(19, 20), base_probability)

\* line 48
simple_label(probability) ==
    IF RLt(R(1, 2), probability) THEN "AI Generated" ELSE "Human Written"

\* line 49
simple_confidence(probability) ==
    RMul(RAbs(RSub(probability, R(1, 2))), Int2R(2))

\* lines 51-55
simple_result(input_text) ==
    LET probability == simple_probability(input_text)
    IN  [probability |-> probability,
         label |-> simple_label(probability),
         confidence |-> simple_confidence(probability)]

(***************************************************************************)
(* ai-detector-lite.py                                                     *)
(***************************************************************************)
\* string.punctuation, less the backquote: a TLA+ string cannot hold one, so
\* no text of the model does.
Punctuation ==
    { "!", "\"", "#", "$", "%", "&", "'", "(", ")", "*", "+", ",", "-", ".",
      "/", ":", ";", "<", "=", ">", "?", "@", "[", "\\", "]", "^", "_",
      "{", "|", "}", "~" }

\* len(word.strip(string.punctuation))
StrippedLen(word) ==
    LET keep == {i \in 1..Len(word) : Char(word, i) \notin Punctuation}
    IN  IF keep = {} THEN 0 ELSE MaxOf(keep) - MinOf(keep) + 1

RECURSIVE SumStrippedLen(_, _)
SumStrippedLen(words, k) ==
    IF k = 0 THEN 0 ELSE StrippedLen(words[k]) + SumStrippedLen(words, k - 1)

\* The characters the regular expression class \w matches.
WordChars == "abcdefghijklmnopqrstuvwxyzABCDEFGHIJKLMNOPQRSTUVWXYZ0123456789_"

IsWordChar(c) == \E k \in 1..Len(WordChars) : Char(WordChars, k) = c

\* re.search(r'\b' + p + r'\b', s), p beginning and ending with a word character
re_search_word(p, s) ==
    \E i \in 1..(Len(s) - Len(p) + 1) :
        /\ SubSeq(s, i, i + Len(p) - 1) = p
        /\ i = 1 \/ ~IsWordChar(Char(s, i - 1))
        /\ i + Len(p) - 1 = Len(s) \/ ~IsWordChar(Char(s, i + Len(p)))

sophisticated_words ==
    << "comprehensive", "analysis", "demonstrates", "significant", "patterns",
       "extensive", "insights", "implications", "furthermore", "therefore",
       "consequently", "moreover", "additionally", "substantial", "considerable",
       "methodological", "systematic", "empirical", "theoretical", "paradigm",
       "framework", "methodology", "approach", "perspective", "investigation" >>

formal_patterns ==
    << "furthermore", "therefore", "consequently", "moreover", "in conclusion",
       "it is important to note", "this suggests", "the analysis shows",
       "the results indicate", "this demonstrates" >>

lite_casual_markers ==
    << "lol", "omg", "btw", "tbh", "imo", "like", "really", "super", "kinda" >>

calculate_text_features(t) ==
    LET raw_words == py_split(t)
        word_count == Len(raw_words)
        sentence_count == Len(NonBlank(re_split_terminators(t)))
        lower == py_lower(t)
        words == py_split(lower)
        sophisticated_count ==
            Cardinality({k \in 1..Len(words) :
                            \E j \in 1..Len(sophisticated_words) :
                                py_in(sophisticated_words[j], words[k])})
        formal_pattern_count ==
            Cardinality({k \in 1..Len(formal_patterns) :
                            re_search_word(formal_patterns[k], lower)})
        trigrams == [i \in 1..Max(Len(words) - 2, 0) |->
                        words[i] \o " " \o words[i + 1] \o " " \o words[i + 2]]
        repeated == {g \in {trigrams[i] : i \in 1..Len(trigrams)} :
                        Cardinality({i \in 1..Len(trigrams) : trigrams[i] = g}) > 1}
        casual_count == CountPresent(lite_casual_markers, lower)
    IN  [ avg_word_length |->
              R(SumStrippedLen(raw_words, word_count), Max(word_count, 1)),
          avg_sentence_length |-> R(word_count, Max(sentence_count, 1)),
          sophistication_ratio |-> R(sophisticated_count, Max(word_count, 1)),
          formal_ratio |-> R(formal_pattern_count, Max(sentence_count, 1)),
          repetition_score |-> R(Cardinality(repeated), Max(Len(trigrams), 1)),
          exclamation_ratio |-> R(py_count(t, "!"), Max(Len(t), 1)),
          question_ratio |-> R(py_count(t, "?"), Max(Len(t), 1)),
          casual_ratio |-> R(casual_count, Max(word_count, 1)) ]

\* The right operands of the divisions of calculate_text_features(t):
\* lines 21, 22, 35, 46, 52, 55, 56 and 59.
calculate_text_features_divisors(t) ==
    LET word_count == Len(py_split(t))
        sentence_count == Len(NonBlank(re_split_terminators(t)))
        words == py_split(py_lower(t))
    IN  << Int2R(Max(word_count, 1)), Int2R(Max(sentence_count, 1)),
           Int2R(Max(word_count, 1)), Int2R(Max(sentence_count, 1)),
           Int2R(Max(Max(Len(words) - 2, 0), 1)),
           Int2R(Max(Len(t), 1)), Int2R(Max(Len(t), 1)),
           Int2R(Max(word_count, 1)) >>

text_features_applied(t) ==
    [ features |-> calculate_text_features(t),
      divisors |-> calculate_text_features_divisors(t) ]

\* lines 81-106
lite_score(f) ==
    LET s1 == IF RLt(Int2R(6), f.avg_word_length) THEN R(1, 5) ELSE Zero
        s2 == IF RLt(Int2R(20), f.avg_sentence_length) THEN R(3, 20) ELSE Zero
        s3 == IF RLt(R(3, 20), f.sophistication_ratio) THEN R(1, 4) ELSE Zero
        s4 == IF RLt(R(3, 10), f.formal_ratio) THEN R(1, 5) ELSE Zero
        s5 == IF RLt(f.casual_ratio, R(1, 20)) THEN R(1, 10) ELSE Zero
        s6 == IF RLt(f.exclamation_ratio, R(1, 100)) /\ RLt(f.question_ratio, R(1, 50))
              THEN R(1, 10) ELSE Zero
        s7 == RMin(RMul(f.repetition_score, R(3, 10)), R(1, 5))
    IN  RAdd(RAdd(RAdd(RAdd(RAdd(RAdd(s1, s2), s3), s4), s5), s6), s7)

\* lines 109-111
lite_length_adjustment(t, ai_score) ==
    IF Len(py_split(t)) < 20 THEN RMul(ai_score, R(7, 10)) ELSE ai_score

\* line 114
lite_clamp(ai_score) == RMin(RMax(ai_score, R(1, 10)), R(99, 100))

\* lines 117-118
lite_confidence(probability) ==
    RMin(RMax(RMul(RAbs(RSub(probability, R(1, 2))), Int2R(2)), R(3, 10)), R(19, 20))

detect_ai_probability(t) ==
    LET probability ==
            lite_clamp(lite_length_adjustment(t, lite_score(calculate_text_features(t))))
    IN  <<probability, lite_confidence(probability)>>

\* line 136
lite_label(probability) ==
    IF RLt(R(1, 2), probability) THEN "AI Generated" ELSE "Human Written"

\* lines 133-143
lite_result(t) ==
    LET pc2 == detect_ai_probability(t)
    IN  [probability |-> pc2[1], label |-> lite_label(pc2[1]), confidence |-> pc2[2]]

(***************************************************************************)
(* Regular expressions of the model-backed detectors.  Every pattern is    *)
(* matched against the lower-cased text: the sources either lower the text *)
(* first or pass re.IGNORECASE, and the alternatives below are lower case. *)
(***************************************************************************)
WordCharSet == {Char(WordChars, k) : k \in 1..Len(WordChars)}

IsWord(s, i) == Char(s, i) \in WordCharSet

\* re.findall(r'\b\w+\b', s): the maximal runs of word characters, in order.
re_findall_words(s) ==
    LET starts == {i \in 1..Len(s) : IsWord(s, i) /\ (i = 1 \/ ~IsWord(s, i - 1))}
        last(i) == MinOf({j \in i..Len(s) : j = Len(s) \/ ~IsWord(s, j + 1)})
        order == Ascending(starts, 1, Len(s))
    IN  [k \in 1..Len(order) |-> SubSeq(s, order[k], last(order[k]))]

\* r'\b' + p + r'\b' matches at position i of s; p begins and ends with a
\* word character.
MatchWordAt(p, s, i) ==
    /\ i + Len(p) - 1 <= Len(s)
    /\ i = 1 \/ ~IsWord(s, i - 1)
    /\ i + Len(p) - 1 = Len(s) \/ ~IsWord(s, i + Len(p))
    /\ SubSeq(s, i, i + Len(p) - 1) = p

\* len(re.findall(r'\b(a1|a2|...)\b', s)): the scan takes the leftmost match,
\* at one position the first alternative that matches, and resumes behind it.
RECURSIVE FindallWordsFrom(_, _, _)
FindallWordsFrom(alts, s, from) ==
    LET hits == {i \in from..Len(s) :
                    /\ IsWord(s, i)
                    /\ i = 1 \/ ~IsWord(s, i - 1)
                    /\ \E k \in 1..Len(alts) : MatchWordAt(alts[k], s, i)}
    IN  IF hits = {} THEN 0
        ELSE LET i == MinOf(hits)
                 k == MinOf({j \in 1..Len(alts) : MatchWordAt(alts[j], s, i)})
             IN  1 + FindallWordsFrom(alts, s, i + Len(alts[k]))

re_findall_alternatives(alts, s) == FindallWordsFrom(alts, s, 1)

\* The maximal runs of the character c in s, as their lengths (a set of
\* <<start, length>> pairs).
CharRuns(s, c) ==
    { <<i, MinOf({j \in i..Len(s) : j = Len(s) \/ Char(s, j + 1) # c}) - i + 1>> :
        i \in {j \in 1..Len(s) : Char(s, j) = c /\ (j = 1 \/ Char(s, j - 1) # c)} }

\* len(re.findall(c{least,}, s)): a greedy match takes a whole run.
CountRunsAtLeast(s, c, least) ==
    Cardinality({r \in CharRuns(s, c) : r[2] >= least})

RECURSIVE SumRunsDiv(_, _)
SumRunsDiv(runs, k) ==
    IF runs = {} THEN 0
    ELSE LET r == CHOOSE x \in runs : TRUE
         IN  (r[2] \div k) + SumRunsDiv(runs \ {r}, k)

\* len(re.findall(c repeated k times, s)): each run of n holds n div k matches.
CountRunsExactly(s, c, k) == SumRunsDiv(CharRuns(s, c), k)

\* sum(len(w) for w in words)
RECURSIVE SumLen(_, _)
SumLen(words, k) == IF k = 0 THEN 0 ELSE Len(words[k]) + SumLen(words, k - 1)

RECURSIVE SumSeq(_, _)
SumSeq(q, k) == IF k = 0 THEN 0 ELSE q[k] + SumSeq(q, k - 1)

(***************************************************************************)
(* ai-detector-ml.py: AdvancedLinguisticDetector                           *)
(***************************************************************************)
ml_ai_patterns ==
    << << "furthermore", "moreover", "consequently", "additionally", "however",
          "nevertheless", "therefore", "thus" >>,
       << "comprehensive", "extensive", "significant", "substantial",
          "considerable", "notable", "various", "numerous" >>,
       << "it is important to note", "it should be noted",
          "it must be emphasized", "it is worth noting" >>,
       << "in conclusion", "to summarize", "in summary", "overall",
          "ultimately", "finally" >>,
       << "analysis", "methodology", "framework", "approach", "strategy",
          "implementation", "optimization" >>,
       << "enhance", "optimize", "facilitate", "utilize", "demonstrate",
          "establish", "ensure", "provide" >>,
       << "particular", "specific", "certain", "individual", "respective",
          "relevant", "appropriate" >> >>

\* self.human_patterns, less the third (the runs of punctuation)
ml_human_word_patterns ==
    << << "like", "kinda", "sorta", "yeah", "ok", "lol", "btw", "tbh", "imo",
          "idk", "omg", "wtf" >>,
       << "awesome", "cool", "amazing", "weird", "crazy", "funny", "stupid",
          "dumb", "ridiculous" >>,
       << "i'm", "can't", "won't", "don't", "isn't", "aren't", "didn't",
          "wouldn't", "shouldn't" >>,
       << "probably", "maybe", "perhaps", "might", "could", "should", "guess",
          "think", "feel" >>,
       << "honestly", "seriously", "literally", "basically", "actually",
          "really", "totally", "definitely" >> >>

\* lines 85-90
ml_ai_score(text_lower) ==
    2 * SumSeq([k \in 1..Len(ml_ai_patterns) |->
                   re_findall_alternatives(ml_ai_patterns[k], text_lower)],
               Len(ml_ai_patterns))

\* lines 92-94; the third pattern is [.]{2,}|[!]{2,}|[?]{2,}
ml_human_score(text_lower) ==
    SumSeq([k \in 1..Len(ml_human_word_patterns) |->
               re_findall_alternatives(ml_human_word_patterns[k], text_lower)],
           Len(ml_human_word_patterns))
    + CountRunsAtLeast(text_lower, ".", 2)
    + CountRunsAtLeast(text_lower, "!", 2)
    + CountRunsAtLeast(text_lower, "?", 2)

\* lines 96-129
ml_probability(words, sentences, ai_score, human_score) ==
    LET n == Len(words)
        avg_sentence_length == R(SumWordCounts(sentences, Len(sentences)), Len(sentences))
        avg_word_length == R(SumLen(words, n), n)
        long_words_ratio == R(Cardinality({k \in 1..n : Len(words[k]) > 7}), n)
        scale == RMax(R(n, 100), One)
        formality_ratio == R(ai_score * scale.d, scale.n)
        casualness_ratio == R(human_score * scale.d, scale.n)
        p1 == IF RLt(Int2R(18), avg_sentence_length) THEN R(3, 25) ELSE Zero
        p2 == IF RLt(R(26, 5), avg_word_length) THEN R(2, 25) ELSE Zero
        p3 == IF RLt(R(3, 20), long_words_ratio) THEN R(1, 10) ELSE Zero
        p4 == IF RLt(R(1, 50), formality_ratio)
              THEN RMin(RMul(formality_ratio, Int2R(10)), R(1, 5)) ELSE Zero
        m1 == IF RLt(R(3, 200), casualness_ratio)
              THEN RMin(RMul(casualness_ratio, Int2R(15)), R(1, 4)) ELSE Zero
        p5 == IF ai_score > human_score * 3 THEN R(3, 20) ELSE Zero
        m2 == IF human_score > ai_score * 2 THEN R(1, 5) ELSE Zero
        p6 == IF n > 150 /\ RLt(R(3, 200), formality_ratio) THEN R(2, 25) ELSE Zero
        m3 == IF n < 40 /\ RLt(R(1, 40), casualness_ratio) THEN R(3, 25) ELSE Zero
        plus == RAdd(RAdd(RAdd(p1, p2), RAdd(p3, p4)), RAdd(p5, p6))
        minus == RAdd(RAdd(m1, m2), m3)
        probability == RSub(RAdd(R(1, 2), plus), minus)
    IN  RMax(R(3, 20), RMin(R(23, 25), probability))

\* lines 131-132
ml_confidence(probability) ==
    RMin(RMul(RMul(RAbs(RSub(probability, R(1, 2))), Int2R(2)), R(6, 5)), One)

\* line 136
ml_label(probability) ==
    IF RLe(R(1, 2), probability) THEN "AI Generated" ELSE "Human Written"

\* AdvancedLinguisticDetector.detect, lines 70-138
AdvancedLinguisticDetector_detect(t) ==
    LET text_lower == py_lower(t)
        words == re_findall_words(text_lower)
        sentences == NonBlank(re_split_terminators(py_strip(t)))
    IN  IF words = <<>> \/ sentences = <<>>
        THEN [probability |-> R(1, 2), label |-> "Human Written",
              confidence |-> R(3, 10)]
        ELSE LET probability ==
                     ml_probability(words, sentences, ml_ai_score(text_lower),
                                    ml_human_score(text_lower))
             IN  [probability |-> probability,
                  label |-> ml_label(probability),
                  confidence |-> ml_confidence(probability)]

(***************************************************************************)
(* ai-detector.py: analyze_text_fallback                                   *)
(***************************************************************************)
fallback_ai_patterns ==
    << << "furthermore", "moreover", "additionally", "consequently",
          "therefore", "however" >>,
       << "comprehensive", "extensive", "various", "numerous", "significant" >>,
       << "it's worth noting", "it's important to", "as an ai",
          "i should mention" >>,
       << "in conclusion", "to summarize", "in summary", "overall" >> >>

\* human_patterns, less the third
fallback_human_word_patterns ==
    << << "uh", "um", "like", "you know", "i mean", "actually", "basically" >>,
       << "lol", "haha", "omg", "btw", "tbh", "imo", "fyi" >>,
       << "i think", "i feel", "i guess", "maybe", "probably" >> >>

first_person_words == << "i", "me", "my", "mine", "myself" >>

\* lines 150-152: the matches of the four ai_patterns
fallback_ai_matches(lower) ==
    SumSeq([k \in 1..Len(fallback_ai_patterns) |->
               re_findall_alternatives(fallback_ai_patterns[k], lower)],
           Len(fallback_ai_patterns))

\* lines 162-164; the third pattern is [.]{3,}|\?\?\?|!!!+|wow|cool|awesome
fallback_human_matches(lower) ==
    SumSeq([k \in 1..Len(fallback_human_word_patterns) |->
               re_findall_alternatives(fallback_human_word_patterns[k], lower)],
           Len(fallback_human_word_patterns))
    + CountRunsAtLeast(lower, ".", 3)
    + CountRunsExactly(lower, "?", 3)
    + CountRunsAtLeast(lower, "!", 3)
    + py_count(lower, "wow") + py_count(lower, "cool") + py_count(lower, "awesome")

\* line 122: not text or len(text.strip()) < 10
fallback_is_near_empty(t) == t = "" \/ Len(py_strip(t)) < 10

\* analyze_text_fallback, lines 120-175
analyze_text_fallback(t) ==
    IF fallback_is_near_empty(t) THEN R(1, 2)
    ELSE
    LET words == py_split(t)
        word_count == Len(words)
        lower == py_lower(t)
        avg_word_length ==
            R(Len(t) - py_count(t, " "), word_count)
        sentences == NonBlank(re_split_terminators(t))
        avg_sentence_length == R(word_count, Max(Len(sentences), 1))
        s1 == IF RLt(Int2R(25), avg_sentence_length) THEN R(3, 20) ELSE Zero
        s2 == IF RLt(R(11, 2), avg_word_length) THEN R(1, 10) ELSE Zero
        s3 == IF /\ Len(sentences) > 2
                 /\ \A k \in 1..Len(sentences) : Len(py_split(sentences[k])) > 8
              THEN R(1, 10) ELSE Zero
        ai == RMul(Int2R(fallback_ai_matches(lower)), R(2, 25))
        human == RMul(Int2R(fallback_human_matches(lower)), R(3, 25))
        short == IF word_count < 20 THEN R(1, 10) ELSE Zero
        long == IF word_count > 200 THEN R(1, 20) ELSE Zero
        first_person == re_findall_alternatives(first_person_words, lower)
        personal == IF RLt(R(1, 20), R(first_person, word_count))
                    THEN R(1, 10) ELSE Zero
        ai_probability ==
            RSub(RAdd(RAdd(RAdd(R(1, 2), RAdd(s1, s2)), RAdd(s3, ai)), long),
                 RAdd(RAdd(human, short), personal))
    IN  IF word_count = 0 THEN R(1, 2)
        ELSE RMax(R(1, 20), RMin(R(19, 20), ai_probability))

\* The right operands of the divisions of analyze_text_fallback(t): lines
\* 130, 132 and 172; none after the returns of lines 122-123 and 127-128.
analyze_text_fallback_divisors(t) ==
    LET word_count == Len(py_split(t))
        sentences == NonBlank(re_split_terminators(t))
    IN  IF fallback_is_near_empty(t) \/ word_count = 0
        THEN <<>>
        ELSE << Int2R(word_count), Int2R(Max(Len(sentences), 1)),
                Int2R(word_count) >>

fallback_applied(t) ==
    [ value |-> analyze_text_fallback(t),
      divisors |-> analyze_text_fallback_divisors(t) ]

(***************************************************************************)
(* user-desklib-model.py: simulate_desklib_prediction                      *)
(***************************************************************************)
academic_terms ==
    { "analysis", "comprehensive", "significant", "substantial", "methodology",
      "framework", "implementation", "optimization", "configuration",
      "evaluation", "investigation", "theoretical", "empirical", "systematic",
      "extensive", "furthermore", "moreover", "consequently", "therefore",
      "additionally", "however", "nevertheless", "subsequently",
      "alternatively", "specifically" }

technical_terms ==
    { "detection", "algorithm", "technique", "approach", "method", "process",
      "system", "functionality", "requirements", "specifications" }

formal_connectives ==
    << "however", "therefore", "furthermore", "moreover", "consequently",
       "additionally", "nevertheless" >>

simulate_casual_markers ==
    << "really", "pretty", "quite", "actually", "honestly", "basically",
       "like", "you know", "i mean", "kinda", "sorta", "hey", "yeah", "wow",
       "cool", "awesome", "lol", "omg" >>

\* lines 147-150
simulate_length_adjustment(token_count, logit_score) ==
    IF token_count < 10 THEN RMul(logit_score, R(7, 10))
    ELSE IF token_count > 100 THEN RMul(logit_score, R(6, 5))
    ELSE logit_score

\* lines 79-81
simulate_token_count(t) == Len(re_findall_words(py_lower(py_strip(t))))

\* lines 86-144: logit_score as it stands before line 147, for a text with
\* at least one token
simulate_accumulated(t) ==
    LET text_lower == py_lower(py_strip(t))
        words == re_findall_words(text_lower)
        token_count == Len(words)
        academic_count == Cardinality({k \in 1..token_count : words[k] \in academic_terms})
        technical_count == Cardinality({k \in 1..token_count : words[k] \in technical_terms})
        sentences == NonBlank(re_split_terminators(t))
        avg_sentence_length == R(token_count, Max(Len(sentences), 1))
        structure ==
            IF sentences = <<>> THEN Zero
            ELSE RAdd(IF RLt(Int2R(15), avg_sentence_length)
                      THEN RMul(RSub(avg_sentence_length, Int2R(15)), R(1, 5))
                      ELSE Zero,
                      RMul(R(Cardinality({k \in 1..Len(sentences) :
                                             Len(py_split(sentences[k])) > 20}),
                             Len(sentences)),
                           Int2R(6)))
        connective_density ==
            R(CountPresent(formal_connectives, text_lower), Max(Len(sentences), 1))
        casual_density ==
            R(CountPresent(simulate_casual_markers, text_lower), token_count)
        question_ratio == R(py_count(t, "?"), token_count)
        exclamation_ratio == R(py_count(t, "!"), token_count)
        plus == RAdd(RAdd(RMul(R(academic_count, token_count), Int2R(12)),
                          RMul(R(technical_count, token_count), R(17, 2))),
                     RAdd(structure, RMul(connective_density, Int2R(8))))
        minus == RAdd(RMul(casual_density, Int2R(15)),
                      RAdd(RMul(question_ratio, Int2R(10)),
                           RMul(exclamation_ratio, Int2R(8))))
    IN  RSub(plus, minus)

\* lines 79-150: the logit of a text with at least one token
simulate_logit_score(t) ==
    simulate_length_adjustment(simulate_token_count(t), simulate_accumulated(t))

\* round(1 / (1 + math.exp(-x)), 4) for x >= 0, in ten-thousandths, at
\* x = 0, 0.5, 1, ..., 9.5.
SigmoidSteps ==
    << 5000, 6225, 7311, 8176, 8808, 9241, 9526, 9707, 9820, 9890,
       9933, 9959, 9975, 9985, 9991, 9994, 9997, 9998, 9999, 9999 >>

\* round(1 / (1 + math.exp(-x)), 4).  The result is 1.0 exactly when the
\* sigmoid is at least 0.99995, that is from x = ln 19999 = 9.90344 on, and
\* 0.0 from -9.90344 down; it is 0.5 at x = 0.  These three cases are exact
\* here (1.0 and 0.0 from 9.9035 on).  In between the sigmoid is irrational
\* and is given by its value at the half-integer step below |x|, which lies
\* on the same side of 0.5 and is never 0.0 or 1.0.
round4_sigmoid(x) ==
    LET a == RAbs(x)
        step == (2 * a.n) \div a.d
        up == IF RLe(R(99035, 10000), a) THEN 10000 ELSE SigmoidSteps[step + 1]
    IN  IF RLe(Zero, x) THEN R(up, 10000) ELSE R(10000 - up, 10000)

\* math.exp(-x) raises OverflowError above exp(709.78)
exp_overflows(x) == RLt(x, R(-70978, 100))

\* round(x, 4) of a float that is no tie
round4(x) == R((2 * 10000 * x.n + x.d) \div (2 * x.d), 10000)

\* simulate_desklib_prediction followed by lines 195-199 of main: the record
\* printed for a text the simulation scored, or the exception it raised
simulate_desklib_result(t) ==
    IF re_findall_words(py_lower(py_strip(t))) = <<>>
    THEN [probability |-> R(1, 2), label |-> "Human Written",
          confidence |-> R(1, 2)]
    ELSE LET logit_score == simulate_logit_score(t)
             probability == round4_sigmoid(logit_score)
         IN  IF exp_overflows(logit_score)
             THEN [raised |-> "math range error"]
             ELSE IF RLe(Zero, logit_score)
             THEN [probability |-> probability, label |-> "AI Generated",
                   confidence |-> probability]
             ELSE [probability |-> probability, label |-> "Human Written",
                   confidence |-> RSub(One, probability)]

\* The right operands of the divisions of lines 79-144 of
\* simulate_desklib_prediction(t): lines 98, 105, 113, 120, 127, 135, 141
\* and 142; none after the return of lines 83-84.
simulate_divisors(t) ==
    LET token_count == simulate_token_count(t)
        sentences == NonBlank(re_split_terminators(t))
    IN  IF token_count = 0
        THEN <<>>
        ELSE << Int2R(token_count), Int2R(token_count) >>
             \o (IF sentences # <<>>
                 THEN << Int2R(Len(sentences)), Int2R(Len(sentences)) >>
                 ELSE <<>>)
             \o << Int2R(Max(Len(sentences), 1)), Int2R(token_count),
                   Int2R(token_count), Int2R(token_count) >>

simulate_applied(t) ==
    IF simulate_token_count(t) = 0
    THEN [ token_count |-> 0,
           value |-> simulate_desklib_result(t),
           divisors |-> simulate_divisors(t) ]
    ELSE [ token_count |-> simulate_token_count(t),
           accumulated |-> simulate_accumulated(t),
           adjusted |-> simulate_logit_score(t),
           value |-> simulate_desklib_result(t),
           divisors |-> simulate_divisors(t) ]

(***************************************************************************)
(* The input texts.  A text is typed phrase by phrase, at most MaxTokens   *)
(* phrases; the phrases are the two scenario texts of the specification    *)
(* and fragments that place a text on either side of each threshold of     *)
(* the detectors.                                                          *)
(***************************************************************************)
FormalScenario ==
    "This comprehensive analysis demonstrates significant findings; furthermore, the methodology employed substantial empirical investigation."

CasualScenario == "lol idk, kinda think it's pretty cool tbh!"

DilutedPhrase == "however analysis of one and two and three done. "

ClausePhrase == "however we note that one framework and that two and that more. "

BoundaryPhrase ==
    "the new analysis of the data and the patterns we saw in it gave us insights and a framework to go on!!"

Phrases ==
    { " ", "ok", FormalScenario, CasualScenario, DilutedPhrase, ClausePhrase,
      BoundaryPhrase }

Connectives == {"however", "moreover"}

NoResult == [none |-> TRUE]

SingleWord == "Hello"

\* Two spaces between "kind" and "of".
DoubleSpaced == "it was kind  of good"

ShortText == "ok then"

SlangWord == "lol"

\* One word and 102 question marks: the logit of the simulation is -714.
OverflowText ==
    "a??????????????????????????????????????????????????????????????????????????????????????????????????????"

EntryTexts ==
    { "", " ", SingleWord, SlangWord, ShortText, FormalScenario, CasualScenario,
      ClausePhrase, BoundaryPhrase, OverflowText }

\* What the loaded model answers for a text: the model is outside the
\* program, so its answer is any float in [0, 1]; three of them are drawn.
ModelProbabilities == {R(1, 5), R(1, 2), R(43827, 50000)}

\* libraries          the ML libraries (torch, transformers, ...) import
\* model              what loading and running the model does
\* model_probability  the probability the model predicts, when it predicts
\* raises             what raises in the try block of a main: nothing, reading
\*                    stdin (bytes the decoder rejects), or the heuristic
\* argv               a command-line argument is given
Envs ==
    { e \in [ libraries : BOOLEAN,
              model : {"absent", "load_raises", "inference_raises", "predicts"},
              model_probability : ModelProbabilities \cup {NoResult},
              raises : {"none", "stdin", "heuristic"},
              argv : BOOLEAN ] :
        /\ e.libraries <=> e.model # "absent"
        /\ e.model = "predicts" <=> e.model_probability # NoResult }

QuietEnv ==
    [ libraries |-> FALSE, model |-> "absent", model_probability |-> NoResult,
      raises |-> "none", argv |-> TRUE ]

(***************************************************************************)
(* The entry points.  stdin is `text`; stdout is the sequence of records   *)
(* printed; exit_status holds the status the process ended with, once it   *)
(* has ended.                                                              *)
(***************************************************************************)
\* ai-detector-adapted.py main, lines 199-217.  Nothing in the try block
\* raises for a text, so the except branch is not taken.
adapted_main_stdout(stdin) ==
    LET t == py_strip(stdin)
    IN  IF t = ""
        THEN <<[error |-> "No text provided"]>>
        ELSE <<detect_ai_text_desklib(t)>>

adapted_main_exit(stdin) == IF py_strip(stdin) = "" THEN <<1>> ELSE <<0>>

adapted_main_calls(stdin) ==
    IF py_strip(stdin) = ""
    THEN <<>>
    ELSE <<"detect_ai_text_desklib">> \o detect_ai_text_desklib_calls(py_strip(stdin))

\* ai-detector-lite.py main, lines 122-149
lite_main_stdout(stdin) ==
    LET t == py_strip(stdin)
    IN  IF t = "" THEN <<[error |-> "No text provided"]>> ELSE <<lite_result(t)>>

lite_main_exit(stdin) == IF py_strip(stdin) = "" THEN <<1>> ELSE <<0>>

\* ai-detector-simple.py main, lines 5-61
simple_main_stdout(stdin) ==
    LET input_text == py_strip(stdin)
    IN  IF input_text = ""
        THEN <<[error |-> "No input text provided"]>>
        ELSE <<simple_result(input_text)>>

simple_main_exit(stdin) == IF py_strip(stdin) = "" THEN <<1>> ELSE <<0>>

\* str(e) of the exception a main caught
ExceptionMessage == "exception"

\* The try block of a heuristic main raises: sys.stdin.read() does, or the
\* heuristic does once a non-empty text has reached it.
main_raises(stdin, e) ==
    \/ e.raises = "stdin"
    \/ e.raises = "heuristic" /\ py_strip(stdin) # ""

\* except Exception of ai-detector-adapted.py (lines 215-217), of
\* ai-detector-lite.py (lines 147-149) and of user-desklib-model.py
\* (lines 203-205): print the error record, sys.exit(1)
except_stdout == <<[error |-> ExceptionMessage]>>

\* ml_main_stdout without the return of line 178: after the record of the
\* model the linguistic detector runs and prints as well
ml_main_stdout_no_return(stdin, e) ==
    LET input_text == py_strip(stdin)
        final_error ==
            [error |-> ExceptionMessage, probability |-> R(1, 2),
             label |-> "Human Written", confidence |-> R(2, 5), fallback |-> TRUE]
        p == e.model_probability
        d == AdvancedLinguisticDetector_detect(input_text)
        fallback == IF e.raises = "heuristic" THEN final_error
                    ELSE [probability |-> d.probability, label |-> d.label,
                          confidence |-> d.confidence, fallback |-> TRUE]
    IN  IF e.raises = "stdin" THEN <<final_error>>
        ELSE IF input_text = ""
        THEN <<[error |-> "No input text provided", probability |-> R(1, 2),
                label |-> "Human Written", confidence |-> R(3, 10)]>>
        ELSE IF e.libraries /\ e.model = "predicts"
        THEN <<[probability |-> p,
                label |-> IF RLe(R(1, 2), p) THEN "AI Generated" ELSE "Human Written",
                confidence |-> RMax(p, RSub(One, p))],
               fallback>>
        ELSE <<fallback>>

\* ai-detector-ml.py main, lines 140-198: the records printed
ml_main_stdout(stdin, e) ==
    LET input_text == py_strip(stdin)
        final_error ==
            [error |-> ExceptionMessage, probability |-> R(1, 2),
             label |-> "Human Written", confidence |-> R(2, 5), fallback |-> TRUE]
        p == e.model_probability
        d == AdvancedLinguisticDetector_detect(input_text)
    IN  IF e.raises = "stdin" THEN <<final_error>>
        ELSE IF input_text = ""
        THEN <<[error |-> "No input text provided", probability |-> R(1, 2),
                label |-> "Human Written", confidence |-> R(3, 10)]>>
        ELSE IF e.libraries /\ e.model = "predicts"
        THEN <<[probability |-> p,
                label |-> IF RLe(R(1, 2), p) THEN "AI Generated" ELSE "Human Written",
                confidence |-> RMax(p, RSub(One, p))]>>
        ELSE IF e.raises = "heuristic" THEN <<final_error>>
        ELSE <<[probability |-> d.probability, label |-> d.label,
                confidence |-> d.confidence, fallback |-> TRUE]>>

\* ai-detector-ml.py main: the providers it runs, in order
ml_main_calls(stdin, e) ==
    IF e.raises = "stdin" \/ py_strip(stdin) = "" THEN <<>>
    ELSE (IF e.libraries THEN <<"DeskLibModel">> ELSE <<>>)
         \o (IF e.libraries /\ e.model = "predicts"
             THEN <<>> ELSE <<"AdvancedLinguisticDetector.detect">>)

\* ai-detector-ml.py main returns on every path
ml_main_exit(stdin, e) == <<0>>

\* lines 83-88 and 110-115 of ai-detector.py: the record of the fallback
detector_fallback_record(t) ==
    LET probability == analyze_text_fallback(t)
    IN  [probability |-> probability,
         label |-> IF RLe(R(1, 2), probability)
                   THEN "AI Generated" ELSE "Human Written",
         fallback |-> TRUE]

\* ai-detector.py, the imports of lines 1-3 and main, lines 64-118: the
\* records printed.  Without the libraries line 1 raises ImportError before
\* main is defined and the traceback goes to stderr.
detector_main_stdout(arg, e) ==
    IF ~e.libraries THEN <<>>
    ELSE IF ~e.argv THEN <<[error |-> "No text provided"]>>
    ELSE IF e.model = "predicts"
    THEN <<[probability |-> e.model_probability,
            label |-> IF RLe(R(1, 2), e.model_probability)
                      THEN "AI Generated" ELSE "Human Written"]>>
    ELSE IF e.raises = "heuristic"
    THEN <<[error |-> "Analysis failed: " \o ExceptionMessage]>>
    ELSE <<detector_fallback_record(arg)>>

detector_main_exit(arg, e) ==
    IF ~e.libraries \/ ~e.argv THEN <<1>> ELSE <<0>>

\* ai-detector.py: the functions run, in order
detector_main_calls(arg, e) ==
    IF ~e.libraries THEN <<>>
    ELSE IF ~e.argv THEN <<"main">>
    ELSE IF e.model = "predicts" THEN <<"main", "from_pretrained", "predict_single_text">>
    ELSE IF e.model = "load_raises"
    THEN <<"main", "from_pretrained", "analyze_text_fallback">>
         \o (IF e.raises = "heuristic" THEN <<"analyze_text_fallback">> ELSE <<>>)
    ELSE <<"main", "from_pretrained", "predict_single_text", "analyze_text_fallback">>

\* The model is not used by user-desklib-model.py main: lines 171, 187-192
user_desklib_simulates(e) == ~e.libraries \/ e.model # "predicts"

\* user-desklib-model.py main, lines 161-205: the records printed
user_desklib_main_stdout(stdin, e) ==
    LET t == py_strip(stdin)
        p == e.model_probability
        sim == simulate_desklib_result(t)
    IN  IF e.raises = "stdin" THEN except_stdout
        ELSE IF t = "" THEN <<[error |-> "No text provided"]>>
        ELSE IF ~user_desklib_simulates(e)
        THEN <<[probability |-> round4(p),
                label |-> IF RLe(R(1, 2), p) THEN "AI Generated" ELSE "Human Written",
                confidence |-> round4(IF RLe(R(1, 2), p) THEN p ELSE RSub(One, p))]>>
        ELSE IF e.raises = "heuristic" \/ "raised" \in DOMAIN sim
        THEN except_stdout
        ELSE <<sim>>

\* user-desklib-model.py main ends in sys.exit(1): lines 166-168, 203-205
user_desklib_main_fails(stdin, e) ==
    \/ e.raises = "stdin"
    \/ py_strip(stdin) = ""
    \/ /\ user_desklib_simulates(e)
       /\ \/ e.raises = "heuristic"
          \/ "raised" \in DOMAIN simulate_desklib_result(py_strip(stdin))

user_desklib_main_exit(stdin, e) ==
    IF user_desklib_main_fails(stdin, e) THEN <<1>> ELSE <<0>>

\* user-desklib-model.py main: the providers it runs, in order
user_desklib_main_calls(stdin, e) ==
    IF e.raises = "stdin" \/ py_strip(stdin) = "" THEN <<>>
    ELSE (IF e.libraries THEN <<"DesklibAIDetectionModel">> ELSE <<>>)
         \o (IF user_desklib_simulates(e)
             THEN <<"simulate_desklib_prediction">> ELSE <<>>)

Init ==
    /\ text = ""
    /\ ntyped = 0
    /\ pc = "input"
    /\ entry = "none"
    /\ result = NoResult
    /\ calls = <<>>
    /\ stdout = <<>>
    /\ exit_status = <<>>
    /\ prev = NoResult
    /\ remembered = NoResult
    /\ ncalls = 0
    /\ env = QuietEnv
    /\ threads = <<>>
    /\ globals = <<>>

\* One more phrase arrives on the input.
Type(p) ==
    /\ pc = "input"
    /\ ntyped < MaxTokens
    /\ text' = text \o p
    /\ ntyped' = ntyped + 1
    /\ UNCHANGED <<pc, entry, result, calls, stdout, exit_status, prev,
                   remembered, ncalls,
                   env, threads, globals>>

\* A caller invokes detect_ai_text_desklib(text).
CallDetect ==
    /\ pc \in {"input", "edited"}
    /\ result' = detect_ai_text_desklib(text)
    /\ calls' = detect_ai_text_desklib_calls(text)
    /\ entry' = "detect_ai_text_desklib"
    /\ pc' = "returned"
    /\ UNCHANGED <<text, ntyped, stdout, exit_status, prev, remembered, ncalls,
                   env, threads, globals>>

\* The caller adds one formal connective word to the text just classified,
\* in front of it or behind it, and keeps the probability the text got.
InsertConnective(c, front) ==
    /\ pc = "returned"
    /\ prev = NoResult
    /\ prev' = [text |-> text, probability |-> result.probability, scored |-> calls # <<>>]
    /\ text' = IF front THEN c \o " " \o text ELSE text \o " " \o c
    /\ pc' = "edited"
    /\ UNCHANGED <<ntyped, entry, result, calls, stdout, exit_status,
                   remembered, ncalls,
                   env, threads, globals>>

RunAdaptedMain ==
    /\ pc = "input"
    /\ stdout' = IF main_raises(text, env) THEN except_stdout
                 ELSE adapted_main_stdout(text)
    /\ exit_status' = IF main_raises(text, env) THEN <<1>>
                      ELSE adapted_main_exit(text)
    /\ calls' = IF env.raises = "stdin" THEN <<>>
                ELSE IF main_raises(text, env) THEN <<"detect_ai_text_desklib">>
                ELSE adapted_main_calls(text)
    /\ entry' = "adapted_main"
    /\ pc' = "exited"
    /\ UNCHANGED <<text, ntyped, result, prev, remembered, ncalls,
                   env, threads, globals>>

RunLiteMain ==
    /\ pc = "input"
    /\ stdout' = IF main_raises(text, env) THEN except_stdout
                 ELSE lite_main_stdout(text)
    /\ exit_status' = IF main_raises(text, env) THEN <<1>>
                      ELSE lite_main_exit(text)
    /\ entry' = "lite_main"
    /\ pc' = "exited"
    /\ UNCHANGED <<text, ntyped, result, calls, prev, remembered, ncalls,
                   env, threads, globals>>

\* ai-detector-simple.py prints the record of its except branch to stderr
\* (line 60), so stdout stays empty.
RunSimpleMain ==
    /\ pc = "input"
    /\ stdout' = IF main_raises(text, env) THEN <<>>
                 ELSE simple_main_stdout(text)
    /\ exit_status' = IF main_raises(text, env) THEN <<1>>
                      ELSE simple_main_exit(text)
    /\ entry' = "simple_main"
    /\ pc' = "exited"
    /\ UNCHANGED <<text, ntyped, result, calls, prev, remembered, ncalls,
                   env, threads, globals>>

RunMlMain ==
    /\ pc = "input"
    /\ stdout' = ml_main_stdout(text, env)
    /\ exit_status' = ml_main_exit(text, env)
    /\ calls' = ml_main_calls(text, env)
    /\ entry' = "ml_main"
    /\ pc' = "exited"
    /\ UNCHANGED <<text, ntyped, result, prev, remembered, ncalls, env, threads, globals>>

\* ai-detector.py takes the text from sys.argv[1].
RunDetectorMain ==
    /\ pc = "input"
    /\ stdout' = detector_main_stdout(text, env)
    /\ exit_status' = detector_main_exit(text, env)
    /\ calls' = detector_main_calls(text, env)
    /\ entry' = "detector_main"
    /\ pc' = "exited"
    /\ UNCHANGED <<text, ntyped, result, prev, remembered, ncalls, env, threads, globals>>

RunUserDesklibMain ==
    /\ pc = "input"
    /\ stdout' = user_desklib_main_stdout(text, env)
    /\ exit_status' = user_desklib_main_exit(text, env)
    /\ calls' = user_desklib_main_calls(text, env)
    /\ entry' = "user_desklib_main"
    /\ pc' = "exited"
    /\ UNCHANGED <<text, ntyped, result, prev, remembered, ncalls, env, threads, globals>>

Next ==
    \/ \E p \in Phrases : Type(p)
    \/ CallDetect
    \/ \E c \in Connectives, front \in BOOLEAN : InsertConnective(c, front)
    \/ RunAdaptedMain
    \/ RunLiteMain
    \/ RunSimpleMain

Spec == Init /\ [][Next]_vars

(***************************************************************************)
(* Repeated invocation: one process calls detect_ai_text_desklib MaxCalls  *)
(* times on texts of its choice and remembers one of the results.          *)
(***************************************************************************)
RepeatTexts == Phrases \cup {"", SingleWord, DoubleSpaced}

Invoke(t, remember) ==
    /\ ncalls < MaxCalls
    /\ text' = t
    /\ result' = detect_ai_text_desklib(t)
    /\ calls' = detect_ai_text_desklib_calls(t)
    /\ entry' = "detect_ai_text_desklib"
    /\ pc' = "returned"
    /\ ncalls' = ncalls + 1
    /\ IF remember
       THEN /\ remembered = NoResult
            /\ remembered' = [text |-> t, result |-> result', between |-> 0]
       ELSE remembered' =
                IF remembered # NoResult /\ remembered.text # t
                THEN [remembered EXCEPT !.between = @ + 1]
                ELSE remembered
    /\ UNCHANGED <<ntyped, stdout, exit_status, prev,
                   env, threads, globals>>

NextRepeat == \E t \in RepeatTexts, remember \in BOOLEAN : Invoke(t, remember)

SpecRepeat == Init /\ [][NextRepeat]_vars

(***************************************************************************)
(* The entry points in their environment: one process is started on a text *)
(* in an environment and one of the six mains runs to its end.             *)
(***************************************************************************)
InitEntry ==
    /\ text \in EntryTexts
    /\ env \in Envs
    /\ ntyped = 0
    /\ pc = "input"
    /\ entry = "none"
    /\ result = NoResult
    /\ calls = <<>>
    /\ stdout = <<>>
    /\ exit_status = <<>>
    /\ prev = NoResult
    /\ remembered = NoResult
    /\ ncalls = 0
    /\ threads = <<>>
    /\ globals = <<>>

NextEntry ==
    \/ RunAdaptedMain
    \/ RunLiteMain
    \/ RunSimpleMain
    \/ RunMlMain
    \/ RunDetectorMain
    \/ RunUserDesklibMain

SpecEntry == InitEntry /\ [][NextEntry]_vars

(***************************************************************************)
(* Concurrent invocation: NumThreads threads each call                     *)
(* detect_ai_text_desklib on a text and their steps interleave.  The       *)
(* function assigns only to its locals (features, probability, confidence, *)
(* label, result), which live in the frame of the call.                    *)
(***************************************************************************)
ThreadTexts == {"ok", SingleWord, CasualScenario, DilutedPhrase, FormalScenario}

ThreadIds == 1..NumThreads

EmptyFrame == [features |-> NoResult, scored |-> NoResult, result |-> NoResult]

\* frame_of with one frame for all calls, as module-level variables would be
frame_of_shared(t) == 1

\* The frame that holds the locals of the call thread t makes: every call of
\* a Python function gets a frame of its own.
frame_of(t) == t

InitConcurrent ==
    /\ threads \in
           { [ pcs |-> [t \in ThreadIds |-> "start"],
               args |-> a,
               frames |-> [t \in ThreadIds |-> EmptyFrame],
               interleaved |-> FALSE ] : a \in [ThreadIds -> ThreadTexts] }
    /\ text = ""
    /\ ntyped = 0
    /\ pc = "input"
    /\ entry = "none"
    /\ result = NoResult
    /\ calls = <<>>
    /\ stdout = <<>>
    /\ exit_status = <<>>
    /\ prev = NoResult
    /\ remembered = NoResult
    /\ ncalls = 0
    /\ env = QuietEnv
    /\ globals = <<>>

\* Thread t runs while another thread is inside its call.
Interleaves(t) ==
    \E u \in ThreadIds \ {t} : threads.pcs[u] \in {"extracted", "scored"}

ThreadUnchanged ==
    UNCHANGED <<text, ntyped, pc, entry, result, calls, stdout, exit_status,
                prev, remembered, ncalls, env, globals>>

\* lines 177-185: the near-empty test, then features = extract_desklib_features(text)
ThreadEnter(t) ==
    /\ threads.pcs[t] = "start"
    /\ threads' =
           IF is_near_empty(threads.args[t])
           THEN [threads EXCEPT
                    !.pcs[t] = "done",
                    !.frames[frame_of(t)].result =
                        [probability |-> R(1, 2), label |-> "Human Written",
                         confidence |-> R(1, 10)],
                    !.interleaved = @ \/ Interleaves(t)]
           ELSE [threads EXCEPT
                    !.pcs[t] = "extracted",
                    !.frames[frame_of(t)].features =
                        extract_desklib_features(threads.args[t]),
                    !.interleaved = @ \/ Interleaves(t)]
    /\ ThreadUnchanged

\* line 188: probability, confidence = calculate_desklib_probability(features)
ThreadScore(t) ==
    /\ threads.pcs[t] = "extracted"
    /\ threads' =
           [threads EXCEPT
               !.pcs[t] = "scored",
               !.frames[frame_of(t)].scored =
                   calculate_desklib_probability(threads.frames[frame_of(t)].features),
               !.interleaved = @ \/ Interleaves(t)]
    /\ ThreadUnchanged

\* lines 191-197: the label and the record returned
ThreadReturn(t) ==
    /\ threads.pcs[t] = "scored"
    /\ threads' =
           [threads EXCEPT
               !.pcs[t] = "done",
               !.frames[frame_of(t)].result =
                   LET scored == threads.frames[frame_of(t)].scored
                   IN  [probability |-> scored[1],
                        label |-> desklib_label(scored[1]),
                        confidence |-> scored[2]],
               !.interleaved = @ \/ Interleaves(t)]
    /\ ThreadUnchanged

NextConcurrent ==
    \E t \in ThreadIds : ThreadEnter(t) \/ ThreadScore(t) \/ ThreadReturn(t)

SpecConcurrent == InitConcurrent /\ [][NextConcurrent]_vars

(***************************************************************************)
(* The heuristic functions one by one: a caller applies one of them to a   *)
(* text.  `result` holds what the function returned together with the      *)
(* intermediate values of the call and the right operand of each division  *)
(* it evaluated.                                                           *)
(***************************************************************************)
RECURSIVE Repeat(_, _)
Repeat(s, n) ==
    IF n = 0 THEN ""
    ELSE IF n = 1 THEN s
    ELSE Repeat(s, n \div 2) \o Repeat(s, n - n \div 2)

\* Ten words in one sentence, one of them of formal_academic_words, and
\* " that " twice: formal_density is 0.1 and complex_indicators is 2.
ThresholdText == "however analysis of one that two and that three done."

OkayWord == "okay"

PunctuationOnly == "!!!"

PunctuationRun == "?!?!...!!!???"

WhitespaceOnly == " \t\n           "

NoTerminator == "one two three four five six seven eight nine ten eleven"

RepeatedTrigram == "to be or not to be or not to be"

\* 10, 19, 20, 100 and 101 words, the first of them "however".
TenWords == "however" \o Repeat(" so", 9)

NineteenWords == "however" \o Repeat(" so", 18)

TwentyWords == "however" \o Repeat(" so", 19)

HundredWords == "however" \o Repeat(" so", 99)

HundredOneWords == "however" \o Repeat(" so", 100)

FunctionTexts ==
    { "", " ", WhitespaceOnly, PunctuationOnly, PunctuationRun, SingleWord,
      OkayWord, SlangWord, ShortText, DoubleSpaced, NoTerminator,
      RepeatedTrigram, ThresholdText, FormalScenario, CasualScenario,
      DilutedPhrase, ClausePhrase, BoundaryPhrase, OverflowText, TenWords,
      NineteenWords, TwentyWords, HundredWords, HundredOneWords }

InitFunctions ==
    /\ text \in FunctionTexts
    /\ ntyped = 0
    /\ pc = "input"
    /\ entry = "none"
    /\ result = NoResult
    /\ calls = <<>>
    /\ stdout = <<>>
    /\ exit_status = <<>>
    /\ prev = NoResult
    /\ remembered = NoResult
    /\ ncalls = 0
    /\ env = QuietEnv
    /\ threads = <<>>
    /\ globals = <<>>

\* A caller applies calculate_desklib_probability to extract_desklib_features(text).
ApplyDesklib ==
    /\ pc = "input"
    /\ entry' = "calculate_desklib_probability"
    /\ result' = desklib_applied(text)
    /\ pc' = "applied"
    /\ UNCHANGED <<text, ntyped, calls, stdout, exit_status, prev, remembered,
                   ncalls, env, threads, globals>>

\* A caller applies calculate_text_features to the text.
ApplyTextFeatures ==
    /\ pc = "input"
    /\ entry' = "calculate_text_features"
    /\ result' = text_features_applied(text)
    /\ pc' = "applied"
    /\ UNCHANGED <<text, ntyped, calls, stdout, exit_status, prev, remembered,
                   ncalls, env, threads, globals>>

\* A caller applies simulate_desklib_prediction to the text.
ApplySimulate ==
    /\ pc = "input"
    /\ entry' = "simulate_desklib_prediction"
    /\ result' = simulate_applied(text)
    /\ pc' = "applied"
    /\ UNCHANGED <<text, ntyped, calls, stdout, exit_status, prev, remembered,
                   ncalls, env, threads, globals>>

\* A caller applies analyze_text_fallback to the text.
ApplyFallback ==
    /\ pc = "input"
    /\ entry' = "analyze_text_fallback"
    /\ result' = fallback_applied(text)
    /\ pc' = "applied"
    /\ UNCHANGED <<text, ntyped, calls, stdout, exit_status, prev, remembered,
                   ncalls, env, threads, globals>>

NextFunctions ==
    \/ ApplyDesklib
    \/ ApplyTextFeatures
    \/ ApplySimulate
    \/ ApplyFallback

SpecFunctions == InitFunctions /\ [][NextFunctions]_vars

(***************************************************************************)
(* The model singletons of ai-detector-daemon.py and of                    *)
(* ai-detector-optimized.py.  `globals` holds the module-level variables   *)
(* of each module and, of the latest call of its loading function, the     *)
(* values at entry and what the call returned.  A call is made under an    *)
(* outcome of the libraries: which of the five steps raises, if any, which *)
(* device is available, and the mode from_pretrained leaves the model in.  *)
(* A fresh model is on the cpu.                                            *)
(***************************************************************************)
MaxLoads == 3

None == [none |-> TRUE]

\* raises_at is 0 when no statement raises.
LoadOutcomes == [raises_at : 0..5, cuda : BOOLEAN, eval_on_load : BOOLEAN]

\* The assignments and calls of the five loading statements, up to the one
\* that raises: from_pretrained of the tokenizer, from_pretrained of the
\* model, torch.device, _model.to(_device), _model.eval().
load_steps(g, o, n) ==
    LET last == IF o.raises_at = 0 THEN 5 ELSE o.raises_at - 1
        g1 == IF last >= 1 THEN [g EXCEPT !._tokenizer = [id |-> n]] ELSE g
        g2 == IF last >= 2
              THEN [g1 EXCEPT !._model = [id |-> n, device |-> "cpu",
                                          training |-> ~o.eval_on_load]]
              ELSE g1
        g3 == IF last >= 3
              THEN [g2 EXCEPT !._device =
                                  [type |-> IF o.cuda THEN "cuda" ELSE "cpu"]]
              ELSE g2
        g4 == IF last >= 4 THEN [g3 EXCEPT !._model.device = g3._device.type]
              ELSE g3
        g5 == IF last >= 5 THEN [g4 EXCEPT !._model.training = FALSE] ELSE g4
    IN  g5

\* ai-detector-daemon.py lines 15-18
daemon_globals ==
    [ _model |-> None, _tokenizer |-> None, _device |-> None,
      _model_loaded |-> FALSE,
      loads |-> 0, outcome |-> "none", returned |-> None, before |-> None ]

\* ai-detector-optimized.py lines 54-56
optimized_globals ==
    [ _model |-> None, _tokenizer |-> None, _device |-> None,
      loads |-> 0, outcome |-> "none", returned |-> None, before |-> None ]

\* The module-level variables as a call finds them.
at_entry(g) == [g EXCEPT !.outcome = "none", !.returned = None, !.before = None]

\* load_model with _model_loaded set before the loading statements
load_model_flag_first(d, o) ==
    IF d._model_loaded
    THEN [d EXCEPT !.outcome = "returned",
                   !.returned = <<d._model, d._tokenizer, d._device>>,
                   !.before = at_entry(d)]
    ELSE LET g == load_steps(d, o, d.loads + 1)
         IN  IF o.raises_at = 0
             THEN [g EXCEPT !._model_loaded = TRUE,
                            !.loads = @ + 1,
                            !.outcome = "returned",
                            !.returned = <<g._model, g._tokenizer, g._device>>,
                            !.before = at_entry(d)]
             ELSE [g EXCEPT !._model_loaded = TRUE,
                            !.loads = @ + 1,
                            !.outcome = "raised",
                            !.returned = None,
                            !.before = at_entry(d)]

\* ai-detector-daemon.py load_model, lines 39-59
load_model(d, o) ==
    IF d._model_loaded
    THEN [d EXCEPT !.outcome = "returned",
                   !.returned = <<d._model, d._tokenizer, d._device>>,
                   !.before = at_entry(d)]
    ELSE LET g == load_steps(d, o, d.loads + 1)
         IN  IF o.raises_at = 0
             THEN [g EXCEPT !._model_loaded = TRUE,
                            !.loads = @ + 1,
                            !.outcome = "returned",
                            !.returned = <<g._model, g._tokenizer, g._device>>,
                            !.before = at_entry(d)]
             ELSE [g EXCEPT !.loads = @ + 1,
                            !.outcome = "raised",
                            !.returned = None,
                            !.before = at_entry(d)]

\* ai-detector-optimized.py initialize_model, lines 58-67
initialize_model(d, o) ==
    IF d._model # None
    THEN [d EXCEPT !.outcome = "returned",
                   !.returned = <<d._model, d._tokenizer, d._device>>,
                   !.before = at_entry(d)]
    ELSE LET g == load_steps(d, o, d.loads + 1)
         IN  IF o.raises_at = 0
             THEN [g EXCEPT !.loads = @ + 1,
                            !.outcome = "returned",
                            !.returned = <<g._model, g._tokenizer, g._device>>,
                            !.before = at_entry(d)]
             ELSE [g EXCEPT !.loads = @ + 1,
                            !.outcome = "raised",
                            !.returned = None,
                            !.before = at_entry(d)]

InitSingleton ==
    /\ text = ""
    /\ ntyped = 0
    /\ pc = "input"
    /\ entry = "none"
    /\ result = NoResult
    /\ calls = <<>>
    /\ stdout = <<>>
    /\ exit_status = <<>>
    /\ prev = NoResult
    /\ remembered = NoResult
    /\ ncalls = 0
    /\ env = QuietEnv
    /\ threads = <<>>
    /\ globals = [daemon |-> daemon_globals, optimized |-> optimized_globals]

\* A caller in the daemon's process calls load_model().
LoadModel(o) ==
    /\ ncalls < MaxLoads
    /\ globals' = [globals EXCEPT !.daemon = load_model(@, o)]
    /\ ncalls' = ncalls + 1
    /\ entry' = "load_model"
    /\ pc' = "called"
    /\ UNCHANGED <<text, ntyped, result, calls, stdout, exit_status, prev,
                   remembered, env, threads>>

\* A caller in the optimized detector's process calls initialize_model().
InitializeModel(o) ==
    /\ ncalls < MaxLoads
    /\ globals' = [globals EXCEPT !.optimized = initialize_model(@, o)]
    /\ ncalls' = ncalls + 1
    /\ entry' = "initialize_model"
    /\ pc' = "called"
    /\ UNCHANGED <<text, ntyped, result, calls, stdout, exit_status, prev,
                   remembered, env, threads>>

NextSingleton ==
    \E o \in LoadOutcomes : LoadModel(o) \/ InitializeModel(o)

SpecSingleton == InitSingleton /\ [][NextSingleton]_vars

(***************************************************************************)
(* The claims.                                                             *)
(***************************************************************************)
NeutralResult ==
    [probability |-> R(1, 2), label |-> "Human Written", confidence |-> R(1, 10)]

Returned == pc = "returned"

Scored == calls # <<>>

IsClassification(r) == DOMAIN r = {"probability", "label", "confidence"}

IsError(r) == "error" \in DOMAIN r

\* C1: whatever the text (empty, whitespace-only or not), the probability
\* detect_ai_text_desklib returns lies in [0.01, 0.99].
C1_ProbabilityInBand ==
    Returned =>
        /\ RLe(R(1, 100), result.probability)
        /\ RLe(result.probability, R(99, 100))

\* C1 witness: a scored text whose accumulated score is above 0.99 was
\* returned with probability 0.99.
C1_Witness ==
    /\ Returned
    /\ Scored
    /\ RLt(R(99, 100), desklib_score(extract_desklib_features(text)))
    /\ result.probability = R(99, 100)

\* C2: the confidence detect_ai_text_desklib returns lies in [0.3, 0.99] on
\* the scoring path and is at most 0.1 on the neutral short-circuit, which
\* every empty or whitespace-only text takes.
C2_ConfidenceBands ==
    Returned =>
        /\ Scored =>
               /\ RLe(R(3, 10), result.confidence)
               /\ RLe(result.confidence, R(99, 100))
        /\ ~Scored => RLe(result.confidence, R(1, 10))
        /\ py_strip(text) = "" => ~Scored

\* C2 witness: a scored text whose raw confidence is below the floor was
\* returned with confidence 0.3.
C2_Witness ==
    /\ Returned
    /\ Scored
    /\ result.confidence = R(3, 10)
    /\ RLt(desklib_confidence_unfloored(extract_desklib_features(text)), R(3, 10))

\* C3 as stated: in every result of detect_ai_text_desklib, the neutral one
\* included, the label is "AI Generated" if and only if probability >= 0.5.
C3_Original ==
    Returned => (result.label = "AI Generated" <=> RLe(R(1, 2), result.probability))

\* C3 as amended: in every result of the scoring path the label is
\* "AI Generated" if and only if probability >= 0.5, a probability of exactly
\* 0.5 included; the neutral result has probability 0.5 and the label
\* "Human Written".
C3_Amended ==
    Returned =>
        /\ Scored =>
               (result.label = "AI Generated" <=> RLe(R(1, 2), result.probability))
        /\ ~Scored =>
               /\ result.probability = R(1, 2)
               /\ result.label = "Human Written"

\* C3 witness: a scored text was returned with probability exactly 0.5 and
\* the label "AI Generated".
C3_Witness ==
    /\ Returned
    /\ Scored
    /\ result.probability = R(1, 2)
    /\ result.label = "AI Generated"

\* C4: every classification record printed by the main of ai-detector-lite.py
\* and of ai-detector-simple.py has the label "AI Generated" if and only if
\* its probability is >= 0.5.
C4_Claim ==
    (pc = "exited" /\ entry \in {"lite_main", "simple_main"}) =>
        \A k \in 1..Len(stdout) :
            IsClassification(stdout[k]) =>
                (stdout[k].label = "AI Generated"
                    <=> RLe(R(1, 2), stdout[k].probability))

\* C5: for the empty string, a whitespace-only string and any text whose
\* stripped length is below 3, detect_ai_text_desklib returns the neutral
\* result (0.5, "Human Written", 0.1) and calls neither the feature
\* extractor nor the scorer.
C5_NeutralShortCircuit ==
    (Returned /\ Len(py_strip(text)) < 3) =>
        /\ result = NeutralResult
        /\ calls = <<>>

\* C5 witness: a text of whitespace and fewer than 3 other characters was
\* given and the call returned.
C5_Witness ==
    /\ Returned
    /\ Len(text) >= 3
    /\ Len(py_strip(text)) \in 1..2
    /\ prev = NoResult

\* C6: when the input read by the main of ai-detector-adapted.py is empty or
\* whitespace-only, the program prints the neutral classification record, not
\* an error record, and does not exit with a failure status.
C6_Claim ==
    (pc = "exited" /\ entry = "adapted_main" /\ py_strip(text) = "") =>
        /\ stdout = <<NeutralResult>>
        /\ exit_status = <<0>>

C8_Claim ==
    (Returned /\ prev # NoResult /\ prev.scored /\ Scored) =>
        RLe(prev.probability, result.probability)

\* C9: for the formal scenario text detect_ai_text_desklib returns the label
\* "AI Generated" and a probability above 0.6.
C9_Claim ==
    (Returned /\ text = FormalScenario) =>
        /\ result.label = "AI Generated"
        /\ RLt(R(3, 5), result.probability)

\* C10: for the casual scenario text detect_ai_text_desklib returns the label
\* "Human Written" and a probability below 0.4.
C10_CasualScenario ==
    (Returned /\ text = CasualScenario) =>
        /\ result.label = "Human Written"
        /\ RLt(result.probability, R(2, 5))

\* C10 witness: the casual scenario text was classified.
C10_Witness ==
    /\ Returned
    /\ text = CasualScenario
    /\ entry = "detect_ai_text_desklib"
    /\ Scored

Exited == pc = "exited"

HasError(r) == "error" \in DOMAIN r

HasClassification(r) == DOMAIN r \cap {"probability", "label", "confidence"} # {}

HeuristicNames ==
    { "AdvancedLinguisticDetector.detect", "analyze_text_fallback",
      "simulate_desklib_prediction" }

\* The record a main printed came from its heuristic: the heuristic was the
\* last provider it ran.
HeuristicRan == calls # <<>> /\ calls[Len(calls)] \in HeuristicNames

\* C11: for the single word "Hello" detect_ai_text_desklib returns a low
\* confidence, one nearer to its floor of 0.3 than to its cap of 0.98 (below
\* their midpoint 0.64).
C11_Claim ==
    (Returned /\ text = SingleWord) => RLt(result.confidence, R(16, 25))

\* C12: in the main of ai-detector-ml.py, ai-detector.py and
\* user-desklib-model.py a printed classification record carries
\* fallback = true if and only if the heuristic produced it.
C12_Claim ==
    (Exited /\ entry \in {"ml_main", "detector_main", "user_desklib_main"}) =>
        \A k \in 1..Len(stdout) :
            ~HasError(stdout[k]) =>
                (HeuristicRan <=>
                    ("fallback" \in DOMAIN stdout[k] /\ stdout[k].fallback))

\* C13: no record printed by any entry point has an error key together with
\* a probability, label or confidence key.
C13_Claim ==
    Exited =>
        \A k \in 1..Len(stdout) :
            ~(HasError(stdout[k]) /\ HasClassification(stdout[k]))

\* C14: when the heuristic raises for a text, the main of
\* ai-detector-adapted.py and of ai-detector-lite.py prints a classification
\* record and does not end with only an error record and a failure status.
C14_Claim ==
    (Exited /\ entry \in {"adapted_main", "lite_main"}
        /\ env.raises = "heuristic" /\ py_strip(text) # "") =>
        /\ \E k \in 1..Len(stdout) : ~HasError(stdout[k])
        /\ exit_status = <<0>>

\* C15: in the main of ai-detector-ml.py on a non-empty input, the model is
\* the first provider run whenever the libraries imported, the linguistic
\* detector runs exactly when the import failed or the model attempt raised
\* (so not after a prediction), and on every path one record is printed.
C15_FallbackChain ==
    (Exited /\ entry = "ml_main") =>
        /\ Len(stdout) = 1
        /\ (env.raises # "stdin" /\ py_strip(text) # "") =>
               /\ env.libraries => (calls # <<>> /\ calls[1] = "DeskLibModel")
               /\ HeuristicRan <=>
                      (~env.libraries \/ env.model \in {"load_raises", "inference_raises"})
               /\ (env.libraries /\ env.model = "predicts") =>
                      /\ calls = <<"DeskLibModel">>
                      /\ stdout[1].probability = env.model_probability
                      /\ "fallback" \notin DOMAIN stdout[1]

\* C15 witness: the libraries imported, the model attempt raised at inference
\* and the linguistic detector printed the one record.
C15_Witness ==
    /\ Exited
    /\ entry = "ml_main"
    /\ env.model = "inference_raises"
    /\ env.raises = "none"
    /\ calls = <<"DeskLibModel", "AdvancedLinguisticDetector.detect">>
    /\ Len(stdout) = 1
    /\ stdout[1].fallback
    /\ text = FormalScenario

\* C16: in ai-detector.py, whenever the model is unavailable (libraries not
\* installed, weights missing, load or inference raising), the invocation
\* runs analyze_text_fallback and prints its result.
C16_Claim ==
    (Exited /\ entry = "detector_main" /\ env.argv /\ env.raises = "none"
        /\ env.model # "predicts") =>
        /\ HeuristicRan
        /\ stdout = <<detector_fallback_record(text)>>

\* C17: the probability the main of user-desklib-model.py prints on its
\* heuristic path is never exactly 0 and never exactly 1.
C17_Claim ==
    (Exited /\ entry = "user_desklib_main" /\ HeuristicRan) =>
        \A k \in 1..Len(stdout) :
            ~HasError(stdout[k]) =>
                /\ RLt(Zero, stdout[k].probability)
                /\ RLt(stdout[k].probability, One)

\* C19: in ai-detector.py, when the text handed to the heuristic fallback has
\* a stripped length below 10, the record printed has probability 0.5, a
\* label other than "AI Generated" and confidence 0.1.
C19_Claim ==
    (Exited /\ entry = "detector_main" /\ HeuristicRan /\ env.raises = "none"
        /\ fallback_is_near_empty(text)) =>
        /\ Len(stdout) = 1
        /\ stdout[1].probability = R(1, 2)
        /\ stdout[1].label # "AI Generated"
        /\ "confidence" \in DOMAIN stdout[1]
        /\ stdout[1].confidence = R(1, 10)

\* C20: for every non-empty text the confidence in the record of
\* AdvancedLinguisticDetector.detect (printed by the main of
\* ai-detector-ml.py) and in the record of the main of ai-detector-simple.py
\* lies in [0.3, 0.99].
C20_Claim ==
    (Exited /\ py_strip(text) # ""
        /\ \/ entry = "ml_main" /\ HeuristicRan
           \/ entry = "simple_main") =>
        \A k \in 1..Len(stdout) :
            ~HasError(stdout[k]) =>
                /\ RLe(R(3, 10), stdout[k].confidence)
                /\ RLe(stdout[k].confidence, R(99, 100))

\* C18: however the steps of concurrent invocations of
\* detect_ai_text_desklib interleave, on the same text or on different
\* texts, every invocation that has returned holds the result the function
\* gives for its text when run alone.
C18_Isolated ==
    threads # <<>> =>
        \A t \in ThreadIds :
            threads.pcs[t] = "done" =>
                threads.frames[frame_of(t)].result
                    = detect_ai_text_desklib(threads.args[t])

\* C18 witness: two invocations on different scored texts have returned and
\* one of them ran while the other was between its steps.
C18_Witness ==
    /\ threads # <<>>
    /\ \A t \in ThreadIds : threads.pcs[t] = "done"
    /\ threads.interleaved
    /\ threads.args[1] = FormalScenario
    /\ threads.args[2] = CasualScenario

\* C21: for every text t, detect_ai_text_desklib returns for t the result it
\* returns for the normalized form of t (stripped, every run of whitespace
\* replaced by one space).
C21_Claim ==
    Returned =>
        result = detect_ai_text_desklib(preprocess_text_desklib_style(text))

\* C22: of two scored texts, those with the same probability have the same
\* confidence, and the one whose probability is farther from 0.5 does not
\* have the lower confidence.
C22_Claim ==
    (Returned /\ Scored /\ remembered # NoResult
        /\ ~is_near_empty(remembered.text)) =>
        LET here == RAbs(RSub(result.probability, R(1, 2)))
            there == RAbs(RSub(remembered.result.probability, R(1, 2)))
        IN  /\ result.probability = remembered.result.probability =>
                   result.confidence = remembered.result.confidence
            /\ RLt(there, here) =>
                   RLe(remembered.result.confidence, result.confidence)
            /\ RLt(here, there) =>
                   RLe(result.confidence, remembered.result.confidence)

Applied(function) == pc = "applied" /\ entry = function

\* adj is s multiplied by some factor between lo and hi
ScaledWithin(s, adj, lo, hi) ==
    IF RLe(Zero, s)
    THEN RLe(RMul(lo, s), adj) /\ RLe(adj, RMul(hi, s))
    ELSE RLe(RMul(hi, s), adj) /\ RLe(adj, RMul(lo, s))

LengthMultiplier(word_count, s, adj) ==
    IF word_count < 20 THEN ScaledWithin(s, adj, R(3, 5), R(7, 10))
    ELSE IF word_count > 100 THEN ScaledWithin(s, adj, R(11, 10), R(6, 5))
    ELSE adj = s

\* C23: calculate_desklib_probability and simulate_desklib_prediction
\* multiply the accumulated score of a text of fewer than 20 words by a
\* factor in [0.6, 0.7], that of a text of more than 100 words by a factor
\* in [1.1, 1.2], and leave that of a text of 20 to 100 words as it is.
C23_Claim ==
    /\ (Applied("calculate_desklib_probability") /\ ~result.features.is_empty) =>
           LengthMultiplier(result.features.word_count, result.accumulated,
                            result.adjusted)
    /\ (Applied("simulate_desklib_prediction") /\ result.token_count > 0) =>
           LengthMultiplier(result.token_count, result.accumulated,
                            result.adjusted)

NoCasualWord(t) ==
    LET words == py_split(py_lower(t))
    IN  \A k \in 1..Len(words) :
            \A j \in 1..Len(desklib_casual_markers) :
                words[k] # desklib_casual_markers[j]

\* C25: casual_density of extract_desklib_features is at most 1, and is 0
\* for a text none of whose words is a casual marker.
C25_Claim ==
    (Applied("calculate_desklib_probability") /\ ~result.features.is_empty) =>
        /\ RLe(result.features.casual_density, One)
        /\ NoCasualWord(text) => result.features.casual_density = Zero

\* The fraction of the word-trigrams of t, each position counted, that are
\* equal to the trigram at another position; 0 without trigrams.
RepeatedTrigramFraction(t) ==
    LET words == py_split(py_lower(t))
        n == Max(Len(words) - 2, 0)
        Same(i, j) == /\ words[i] = words[j]
                      /\ words[i + 1] = words[j + 1]
                      /\ words[i + 2] = words[j + 2]
        again == {i \in 1..n : \E j \in 1..n : j # i /\ Same(i, j)}
    IN  IF n = 0 THEN Zero ELSE R(Cardinality(again), n)

\* C26: repetition_score of calculate_text_features is the fraction of the
\* text's word-trigrams, counted with multiplicity, that occur more than
\* once; it is 0 for a text of fewer than three words.
C26_Claim ==
    Applied("calculate_text_features") =>
        result.features.repetition_score = RepeatedTrigramFraction(text)

\* C27: every division evaluated by extract_desklib_features,
\* calculate_desklib_probability, calculate_text_features,
\* simulate_desklib_prediction and analyze_text_fallback has a right operand
\* of at least 1, whatever the text.
C27_NoDivisionByZero ==
    pc = "applied" =>
        \A k \in 1..Len(result.divisors) : RLe(One, result.divisors[k])

\* analyze_text_fallback was applied to a text of punctuation only, with no
\* sentence in it, and went past its early returns to its divisions.
C27_Witness ==
    /\ Applied("analyze_text_fallback")
    /\ text = PunctuationRun
    /\ NonBlank(re_split_terminators(text)) = <<>>
    /\ Len(result.divisors) = 3

\* C28: in the daemon, _model_loaded is true only if tokenizer, model and
\* device are set, the model is on the device and in eval mode; a
\* load_model call that raises leaves _model_loaded false and the next call
\* loads again; a call that finds _model_loaded true returns the triple it
\* found, without loading.
C28_DaemonSingleton ==
    LET d == globals.daemon
    IN  /\ d._model_loaded =>
               /\ d._tokenizer # None /\ d._model # None /\ d._device # None
               /\ d._model.device = d._device.type
               /\ ~d._model.training
        /\ d.outcome = "raised" => ~d._model_loaded
        /\ (d.outcome # "none" /\ ~d.before._model_loaded) =>
               d.loads = d.before.loads + 1
        /\ (d.outcome # "none" /\ d.before._model_loaded) =>
               /\ d.outcome = "returned"
               /\ d.returned = << d.before._model, d.before._tokenizer,
                                  d.before._device >>
               /\ d.loads = d.before.loads
               /\ d._model_loaded

\* A load raised after the model was assigned, the next call loaded again
\* and succeeded, and the call after that returned the same triple.
C28_Witness ==
    /\ entry = "load_model"
    /\ globals.daemon.loads = 2
    /\ globals.daemon.before._model_loaded
    /\ globals.daemon.outcome = "returned"
    /\ globals.daemon.returned[1].id = 2
    /\ globals.optimized.loads = 0

\* C29: an initialize_model call that returns normally returns a tokenizer
\* and a device that are set and a model that is on that device and in eval
\* mode, also after an earlier call raised part-way.
C29_Claim ==
    LET d == globals.optimized
    IN  d.outcome = "returned" =>
        /\ d.returned[1] # None
        /\ d.returned[2] # None
        /\ d.returned[3] # None
        /\ d.returned[1].device = d.returned[3].type
        /\ ~d.returned[1].training

\* C30: a main ends with a non-zero exit status exactly when the record it
\* printed is an error record, and a main that printed a classification
\* record ends with status 0.
C30_Claim ==
    Exited =>
        /\ exit_status # <<0>> <=>
               \E k \in 1..Len(stdout) : HasError(stdout[k])
        /\ (\E k \in 1..Len(stdout) :
                HasClassification(stdout[k]) /\ ~HasError(stdout[k])) =>
               exit_status = <<0>>

=============================================================================
